---- MODULE Spec2Model ----
(***************************************************************************)
(* A model of package rat128 (src/rat128.go, src/gcd.go): fixed-width      *)
(* rational numbers N{m, n} with numerator m and biased denominator n      *)
(* (Den = n + 1).                                                          *)
(*                                                                         *)
(* The machine word is scaled: the program's int64/uint64 become words of  *)
(* Bits = 2 * HalfBits bits and its 128-bit intermediates become 2 * Bits  *)
(* bits.  Every constant of the program that is derived from the word      *)
(* width (math.MinInt64, math.MaxInt64, math.MaxInt32) is derived here     *)
(* from Bits in the same way, and every int64 operation wraps modulo       *)
(* 2^Bits as Go's does.                                                    *)
(***************************************************************************)
EXTENDS Integers, Sequences, FiniteSets, TLC

\* ------------------------------------------------------------------------
\* Bounds of the model
\* ------------------------------------------------------------------------

\* half the width of the machine word (the program: 32)
HalfBits == 3

\* operands are the valid values whose numerator magnitude is at most NumLow
\* or at least MaxInt64 - MagHigh, and whose denominator is at most DenLow or
\* at least MaxInt64 - MagHigh
NumLow == 3

DenLow == 10

MagHigh == 1

\* the longest text handed to the parser
MaxStrLen == 4

\* the operands of the three-operand caller have numerator and denominator
\* magnitudes at most AssocLow, or MaxInt64
AssocLow == 2

\* the largest precision handed to DecimalString
MaxPrec == 3

\* the longest text handed to ParseDecimalString
MaxDecLen == 5

\* how far past MaxInt32 the operands of the two paths reach
PathHigh == 2

\* the largest small magnitude handed to the loop of ExtGCD
GCDLow == 13

\* ------------------------------------------------------------------------
\* Machine integers
\* ------------------------------------------------------------------------

Bits == 2 * HalfBits

TwoW == 2 ^ Bits

MaxInt64 == 2 ^ (Bits - 1) - 1

MinInt64 == -(2 ^ (Bits - 1))

MaxInt32 == 2 ^ (HalfBits - 1) - 1

Int64 == MinInt64 .. MaxInt64

\* conversion of a mathematical integer to int64: two's-complement wrap
ToInt64(v) == ((v - MinInt64) % TwoW) + MinInt64

\* conversion of a mathematical integer to uint64
ToUint64(v) == v % TwoW

AbsZ(v) == IF v < 0 THEN -v ELSE v

\* Go's integer division truncates toward zero; MinInt64 / -1 wraps
QuoGo(c, d) ==
    ToInt64(IF (c < 0) = (d < 0) THEN AbsZ(c) \div AbsZ(d) ELSE -(AbsZ(c) \div AbsZ(d)))

\* Go's remainder has the sign of the dividend
RemGo(c, d) == IF c < 0 THEN -(AbsZ(c) % AbsZ(d)) ELSE c % AbsZ(d)

abs64(v) == IF v < 0 THEN ToInt64(-v) ELSE v

\* sgn64 with the negative branch forgotten
sgn64NoNeg(v) == IF v = 0 THEN 0 ELSE 1

sgn64(v) == IF v = 0 THEN 0 ELSE IF v < 0 THEN -1 ELSE 1

\* math/bits: 2*Bits-wide helpers over uint64 words
Mul64(a, b) == [hi |-> (a * b) \div TwoW, lo |-> (a * b) % TwoW]

Add64(a, b, carry) == [sum |-> (a + b + carry) % TwoW, carryOut |-> (a + b + carry) \div TwoW]

Sub64(a, b, borrow) ==
    [diff |-> (a - b - borrow) % TwoW, borrowOut |-> IF a - b - borrow < 0 THEN 1 ELSE 0]

\* bits.Div64 panics when y = 0 (division by zero) or y <= hi (overflow)
Div64Panics(hi, y) == y = 0 \/ y <= hi

Div64(hi, lo, y) == (hi * TwoW + lo) \div y

\* ------------------------------------------------------------------------
\* gcd.go
\* ------------------------------------------------------------------------

\* the loop of ExtGCD; a division by zero (d = 0) is a run-time panic
\* ExtGCDStep that keeps c and d
ExtGCDStepKeep(a0, a, b0, b, c, d) ==
    [a0 |-> a, a |-> ToInt64(a0 - QuoGo(c, d) * a),
     b0 |-> b, b |-> ToInt64(b0 - QuoGo(c, d) * b),
     c |-> c, d |-> d]

\* one iteration of the loop that does not return (gcd.go lines 28-35)
ExtGCDStep(a0, a, b0, b, c, d) ==
    [a0 |-> a, a |-> ToInt64(a0 - QuoGo(c, d) * a),
     b0 |-> b, b |-> ToInt64(b0 - QuoGo(c, d) * b),
     c |-> d, d |-> RemGo(c, d)]

RECURSIVE ExtGCDLoop(_, _, _, _, _, _)
ExtGCDLoop(a0, a, b0, b, c, d) ==
    IF d = 0 THEN [a |-> a, b |-> b, d |-> d, panic |-> TRUE]
    ELSE IF RemGo(c, d) = 0 THEN [a |-> a, b |-> b, d |-> d, panic |-> FALSE]
    ELSE LET st == ExtGCDStep(a0, a, b0, b, c, d)
         IN  ExtGCDLoop(st.a0, st.a, st.b0, st.b, st.c, st.d)

\* the same loop, watching the coefficient updates t - q*a and t - q*b: TRUE
\* when a product or a difference leaves the int64 range in some iteration
RECURSIVE ExtGCDWraps(_, _, _, _, _, _)
ExtGCDWraps(a0, a, b0, b, c, d) ==
    IF d = 0 \/ RemGo(c, d) = 0 THEN FALSE
    ELSE LET q == QuoGo(c, d)
         IN  \/ q * a \notin Int64 \/ a0 - q * a \notin Int64
             \/ q * b \notin Int64 \/ b0 - q * b \notin Int64
             \/ ExtGCDWraps(a, ToInt64(a0 - q * a), b, ToInt64(b0 - q * b), d, RemGo(c, d))

\* ExtGCD with the initial coefficient pairs exchanged
ExtGCDSwapped(m, n) == ExtGCDLoop(0, 1, 1, 0, m, n)

ExtGCD(m, n) == ExtGCDLoop(1, 0, 0, 1, m, n)

GCD(m, n) == ExtGCD(m, n).d

GCDPanics(m, n) == ExtGCD(m, n).panic

\* ------------------------------------------------------------------------
\* rat128.go: the type N, construction, reduction
\* ------------------------------------------------------------------------

ErrNil == "nil"

ErrDenInvalid == "denominator is not positive"

ErrDenOverflow == "denominator overflow"

ErrNumOverflow == "numerator overflow"

ErrDivByZero == "division by zero"

ErrFmtInvalid == "invalid number format"

N(m, n) == [m |-> m, n |-> n]

Zero == N(0, 0)

Num(x) == x.m

Den(x) == ToInt64(x.n + 1)

Sign(x) == IF x.m = 0 THEN 0 ELSE IF x.m < 0 THEN -1 ELSE 1

IsZero(x) == x.m = 0

\* the result of a fallible call: the value, the error, and whether the call
\* ended in a run-time panic instead of returning
Ret(v, e) == [v |-> v, err |-> e, panic |-> FALSE]

Panic(e) == [v |-> Zero, err |-> e, panic |-> TRUE]

\* reduce with the division by the GCD left out
reduceNoGCD(x) == IF x.m = 0 THEN Ret(Zero, ErrNil) ELSE Ret(x, ErrNil)

reduce(x) ==
    IF x.m = 0 THEN Ret(Zero, ErrNil)
    ELSE IF GCDPanics(abs64(Num(x)), Den(x)) THEN Panic("integer divide by zero")
    ELSE LET sgn == Sign(x)
             m   == abs64(Num(x))
             n   == Den(x)
             d   == GCD(m, n)
             num == ToInt64(sgn * QuoGo(m, d))
             den == ToInt64(QuoGo(n, d) - 1)
         IN  IF num = MinInt64 THEN Ret(Zero, ErrNumOverflow)
             ELSE Ret(N(num, den), ErrNil)

\* Try without the test of the denominator
TryNoDenCheck(num, den) == reduce(N(num, den - 1))

Try(num, den) ==
    IF den <= 0 THEN Ret(Zero, ErrDenInvalid)
    ELSE reduce(N(num, den - 1))

\* the unwrapping form that returns instead of panicking
UnwrapSilent(r) == r

\* the unwrapping form: panic(err) when the Try form returns an error
Unwrap(r) == IF r.err # ErrNil THEN Panic(r.err) ELSE r

New(num, den) == Unwrap(Try(num, den))

tryAlreadyReduced(num, den) ==
    IF den <= 0 THEN Ret(Zero, ErrDenInvalid)
    ELSE IF num = MinInt64 THEN Ret(Zero, ErrNumOverflow)
    ELSE Ret(N(num, den - 1), ErrNil)

\* IsValid without the test of the stored denominator against MaxInt64
IsValidNoMax(x) ==
    IF x.n < 0 THEN FALSE
    ELSE LET r == reduce(x)
         IN  ~(r.panic \/ r.err # ErrNil \/ x # r.v)

IsValid(x) ==
    IF x.n < 0 \/ x.n = MaxInt64 THEN FALSE
    ELSE LET r == reduce(x)
         IN  ~(r.panic \/ r.err # ErrNil \/ x # r.v)

Neg(x) == N(ToInt64(-x.m), x.n)

Abs(x) == N(abs64(x.m), x.n)

\* TryInv that forgets the sign of the operand
TryInvNoSign(x) ==
    IF x.m = 0 THEN Ret(Zero, ErrDivByZero)
    ELSE tryAlreadyReduced(Den(x), abs64(Num(x)))

TryInv(x) ==
    IF x.m = 0 THEN Ret(Zero, ErrDivByZero)
    ELSE tryAlreadyReduced(ToInt64(Sign(x) * Den(x)), abs64(Num(x)))

Inv(x) == Unwrap(TryInv(x))

\* AddWideSign without the sign flip that goes with swapping the operands
AddWideSignNoSwap(s1, s2, swap) ==
    IF s1 = s2 THEN (IF s1 < 0 THEN -1 ELSE 1) ELSE (IF s2 > 0 THEN -1 ELSE 1)

\* the sign of the wide-path numerator (rat128.go lines 384-405): s1, s2 are
\* the operands' signs, swap tells that |m1| < |m2|
AddWideSign(s1, s2, swap) ==
    LET sgn0 == IF s1 = s2 THEN (IF s1 < 0 THEN -1 ELSE 1)
                ELSE (IF s2 > 0 THEN -1 ELSE 1)
    IN  IF s1 # s2 /\ swap THEN -sgn0 ELSE sgn0

\* AddNumGuard with the test left out
AddNumGuardOff(d, mh) == FALSE

\* the guards before the two bits.Div64 calls (rat128.go lines 417, 424)
AddNumGuard(d, mh) == d <= mh

AddDenGuard(d, nh) == d <= nh

\* the wide path of TryAdd (rat128.go lines 356-431)
TryAddWide(x, y) ==
    LET mx == Num(x)
        nx == Den(x)
        my == Num(y)
        ny == Den(y)
        s1 == sgn64(mx)
        s2 == sgn64(my)
        m1 == Mul64(ToUint64(abs64(mx)), ToUint64(ny))
        m2 == Mul64(ToUint64(abs64(my)), ToUint64(nx))
        nn == Mul64(ToUint64(nx), ToUint64(ny))
        \* |m1| < |m2|: the operands of the subtraction are swapped
        swap == m2.hi > m1.hi \/ (m2.hi = m1.hi /\ m2.lo > m1.lo)
        bigH == IF swap THEN m2.hi ELSE m1.hi
        bigL == IF swap THEN m2.lo ELSE m1.lo
        smlH == IF swap THEN m1.hi ELSE m2.hi
        smlL == IF swap THEN m1.lo ELSE m2.lo
        sgn  == AddWideSign(s1, s2, swap)
        lo   == IF s1 = s2 THEN Add64(m1.lo, m2.lo, 0)
                ELSE [sum |-> Sub64(bigL, smlL, 0).diff,
                      carryOut |-> Sub64(bigL, smlL, 0).borrowOut]
        hi   == IF s1 = s2 THEN Add64(m1.hi, m2.hi, lo.carryOut)
                ELSE [sum |-> Sub64(bigH, smlH, lo.carryOut).diff,
                      carryOut |-> Sub64(bigH, smlH, lo.carryOut).borrowOut]
        ml   == lo.sum
        mh   == hi.sum
        d    == ToUint64(GCD(nx, ny))
        m    == Div64(mh, ml, d)
        n    == Div64(nn.hi, nn.lo, d)
    IN  IF s1 = 0 THEN Ret(y, ErrNil)
        ELSE IF s2 = 0 THEN Ret(x, ErrNil)
        ELSE IF hi.carryOut # 0 THEN Ret(Zero, ErrNumOverflow)
        ELSE IF GCDPanics(nx, ny) THEN Panic("integer divide by zero")
        ELSE IF AddNumGuard(d, mh) THEN Ret(Zero, ErrNumOverflow)
        ELSE IF Div64Panics(mh, d) THEN Panic("bits.Div64")
        ELSE IF m > MaxInt64 THEN Ret(Zero, ErrNumOverflow)
        ELSE IF AddDenGuard(d, nn.hi) THEN Ret(Zero, ErrDenOverflow)
        ELSE IF Div64Panics(nn.hi, d) THEN Panic("bits.Div64")
        ELSE IF n > MaxInt64 THEN Ret(Zero, ErrDenOverflow)
        ELSE Try(ToInt64(sgn * ToInt64(m)), ToInt64(n))

\* AddIsNarrow with the guard dropped: the narrow sum is always used
AddIsNarrowAlways(x, y) == TRUE

\* the guard of the narrow path of TryAdd (rat128.go line 335)
AddIsNarrow(x, y) ==
    /\ abs64(Num(x)) < MaxInt32
    /\ abs64(Num(y)) < MaxInt32
    /\ Den(x) < MaxInt32
    /\ Den(y) < MaxInt32

\* the narrow path of TryAdd (rat128.go line 353), in wrapping int64 arithmetic
TryAddNarrow(x, y) ==
    Try(ToInt64(ToInt64(Num(x) * Den(y)) + ToInt64(Num(y) * Den(x))),
        ToInt64(Den(x) * Den(y)))

TryAdd(x, y) == IF AddIsNarrow(x, y) THEN TryAddNarrow(x, y) ELSE TryAddWide(x, y)

Add(x, y) == Unwrap(TryAdd(x, y))

TrySub(x, y) == TryAdd(x, Neg(y))

Sub(x, y) == Add(x, Neg(y))

\* Cmp: the result is an int (field c); a panic of Sub propagates
Cmp(x, y) ==
    IF x = y THEN [c |-> 0, err |-> ErrNil, panic |-> FALSE]
    ELSE LET r == Sub(x, y)
         IN  [c |-> IF r.panic THEN 0 ELSE Sign(r.v), err |-> r.err, panic |-> r.panic]

\* CancelBy with the cross-cancellation left out
CancelByNone(v, d) == v

\* dividing out a cross-GCD (rat128.go lines 476-481)
CancelBy(v, d) == IF d # 1 THEN QuoGo(v, d) ELSE v

\* TryMul after the sign test: cross-cancellation, then narrow or wide product
MulCancel(x, y) ==
    LET mx0 == abs64(Num(x))
        nx0 == Den(x)
        my0 == abs64(Num(y))
        ny0 == Den(y)
        d1  == GCD(mx0, ny0)
        mx  == CancelBy(mx0, d1)
        ny  == CancelBy(ny0, d1)
        d2  == GCD(my0, nx0)
        my  == CancelBy(my0, d2)
        nx  == CancelBy(nx0, d2)
    IN  [mx |-> mx, nx |-> nx, my |-> my, ny |-> ny,
         panic |-> GCDPanics(mx0, ny0) \/ GCDPanics(my0, nx0)]

\* MulIsNarrow with the guard dropped: the narrow product is always used
MulIsNarrowAlways(c) == TRUE

\* the guard of the narrow path of TryMul (rat128.go line 485)
MulIsNarrow(c) ==
    c.mx < MaxInt32 /\ c.my < MaxInt32 /\ c.nx < MaxInt32 /\ c.ny < MaxInt32

TryMulNarrow(sgn, c) ==
    tryAlreadyReduced(ToInt64(ToInt64(sgn * c.mx) * c.my), ToInt64(c.nx * c.ny))

TryMulWide(sgn, c) ==
    LET m == Mul64(ToUint64(c.mx), ToUint64(c.my))
        n == Mul64(ToUint64(c.nx), ToUint64(c.ny))
    IN  IF m.hi > 0 \/ m.lo > MaxInt64 THEN Ret(Zero, ErrNumOverflow)
        ELSE IF n.hi > 0 \/ n.lo > MaxInt64 THEN Ret(Zero, ErrDenOverflow)
        ELSE tryAlreadyReduced(ToInt64(sgn * ToInt64(m.lo)), ToInt64(n.lo))

TryMul(x, y) ==
    LET sgn == Sign(x) * Sign(y)
        c   == MulCancel(x, y)
    IN  IF sgn = 0 THEN Ret(Zero, ErrNil)
        ELSE IF c.panic THEN Panic("integer divide by zero")
        ELSE IF MulIsNarrow(c) THEN TryMulNarrow(sgn, c)
        ELSE TryMulWide(sgn, c)

Mul(x, y) == Unwrap(TryMul(x, y))

\* TryDiv without the test of the error of TryInv
TryDivNoCheck(x, y) == TryMul(x, TryInv(y).v)

TryDiv(x, y) ==
    LET inv == TryInv(y)
    IN  IF inv.err # ErrNil THEN Ret(Zero, inv.err) ELSE TryMul(x, inv.v)

\* Div is x.Mul(y.Inv()): a panic of Inv ends the call before Mul runs
Div(x, y) ==
    LET inv == Inv(y)
    IN  IF inv.panic THEN inv ELSE Mul(x, inv.v)

\* ------------------------------------------------------------------------
\* rat128.go: float64.  A finite float64 is s * m * 2^e with s its sign and m
\* its significand as an integer of exactly MantBits bits (the program: 53),
\* or zero.  Infinities, NaN and subnormal numbers are left out.
\* ------------------------------------------------------------------------

\* the width of the significand, scaled with the word (the program: 64 - 11)
MantBits == Bits - 2

FloatZero == [s |-> 0, m |-> 0, e |-> 0]

\* bits.Len64, bits.TrailingZeros64, bits.OnesCount64 of a uint64
RECURSIVE Len64(_)
Len64(k) == IF k = 0 THEN 0 ELSE 1 + Len64(k \div 2)

RECURSIVE TrailingZeros64(_)
TrailingZeros64(k) ==
    IF k = 0 THEN Bits ELSE IF k % 2 = 1 THEN 0 ELSE 1 + TrailingZeros64(k \div 2)

RECURSIVE OnesCount64(_)
OnesCount64(k) == IF k = 0 THEN 0 ELSE (k % 2) + OnesCount64(k \div 2)

\* the float64 nearest to sgn * p / q (p, q > 0), ties to the even significand
RoundToFloat(sgn, p, q) ==
    LET k0   == Len64(p) - Len64(q)
        k    == IF (IF k0 >= 0 THEN p >= q * 2 ^ k0 ELSE p * 2 ^ (-k0) >= q) THEN k0 ELSE k0 - 1
        e    == k - (MantBits - 1)
        a    == IF e < 0 THEN p * 2 ^ (-e) ELSE p
        b    == IF e > 0 THEN q * 2 ^ e ELSE q
        lo   == a \div b
        rem  == a % b
        mant == IF 2 * rem > b \/ (2 * rem = b /\ lo % 2 = 1) THEN lo + 1 ELSE lo
    IN  IF mant = 2 ^ MantBits THEN [s |-> sgn, m |-> 2 ^ (MantBits - 1), e |-> e + 1]
        ELSE [s |-> sgn, m |-> mant, e |-> e]

\* the conversion float64(k) of an int64
IntToFloat(k) == IF k = 0 THEN FloatZero ELSE RoundToFloat(IF k < 0 THEN -1 ELSE 1, AbsZ(k), 1)

\* the float64 quotient a / b of two nonzero floats
FloatDiv(a, b) ==
    RoundToFloat(a.s * b.s,
                 a.m * 2 ^ (IF a.e > b.e THEN a.e - b.e ELSE 0),
                 b.m * 2 ^ (IF b.e > a.e THEN b.e - a.e ELSE 0))

\* math.Frexp of a nonzero float: v = f * 2^e with |f| in [0.5, 1)
Frexp(v) == [f |-> [v EXCEPT !.e = -MantBits], e |-> v.e + MantBits]

\* FromFloat64 with the test of e against -63 left out
FromFloat64NoDenTest(v) ==
    LET tz == TrailingZeros64(v.m)
        m  == v.m \div 2 ^ tz
        e  == v.e + tz
    IN  IF v.m = 0 THEN Ret(Zero, ErrNil)
        ELSE IF e >= 0
        THEN IF Len64(m) + e > Bits - 1 THEN Ret(Zero, ErrNumOverflow)
             ELSE Try(ToInt64(v.s * ToInt64(m * 2 ^ e)), 1)
        ELSE Try(ToInt64(v.s * m), ToInt64(2 ^ (-e)))

FromFloat64(v) ==
    LET fr   == Frexp(v)
        s    == IF fr.f.s < 0 THEN -1 ELSE 1
        m0   == fr.f.m * 2 ^ (fr.f.e + MantBits)
        e0   == fr.e - MantBits
        tz   == TrailingZeros64(ToUint64(m0))
        m    == m0 \div 2 ^ tz
        e    == e0 + tz
        prec == Len64(ToUint64(m))
    IN  IF v.m = 0 THEN Ret(Zero, ErrNil)
        ELSE IF e >= 0
        THEN IF prec + e > Bits - 1 THEN Ret(Zero, ErrNumOverflow)
             ELSE Try(ToInt64(s * ToInt64(m * 2 ^ e)), 1)
        ELSE IF e <= -(Bits - 1) THEN Ret(Zero, ErrDenOverflow)
        ELSE Try(ToInt64(s * m), ToInt64(2 ^ (-e)))

\* Float64 of a value with a nonzero denominator: the float and the flag
Float64(x) ==
    LET m    == Num(x)
        n    == Den(x)
        prec == Len64(ToUint64(abs64(m)))
    IN  IF m = 0 THEN [v |-> FloatZero, exact |-> TRUE]
        ELSE IF n = 1 THEN [v |-> IntToFloat(m), exact |-> prec <= MantBits]
        ELSE [v |-> FloatDiv(IntToFloat(m), IntToFloat(n)),
              exact |-> prec <= MantBits /\ OnesCount64(ToUint64(n)) = 1]

\* ------------------------------------------------------------------------
\* rat128.go: text.  A string is a sequence of one-character strings.
\* ------------------------------------------------------------------------

Digits == <<"0", "1", "2", "3", "4", "5", "6", "7", "8", "9">>

IsDigit(ch) == \E i \in 1 .. 10 : Digits[i] = ch

DigitVal(ch) == (CHOOSE i \in 1 .. 10 : Digits[i] = ch) - 1

\* the digit loop of strconv.ParseUint(str, 10, 64) from position i with the
\* accumulator acc: a value, or the error ErrSyntax / ErrRange
RECURSIVE ParseUintLoop(_, _, _)
ParseUintLoop(str, i, acc) ==
    IF i > Len(str) THEN [val |-> acc, err |-> ErrNil]
    ELSE IF ~IsDigit(str[i]) THEN [val |-> 0, err |-> "invalid syntax"]
    ELSE IF acc >= (TwoW - 1) \div 10 + 1 THEN [val |-> 0, err |-> "value out of range"]
    ELSE IF acc * 10 + DigitVal(str[i]) > TwoW - 1 THEN [val |-> 0, err |-> "value out of range"]
    ELSE ParseUintLoop(str, i + 1, acc * 10 + DigitVal(str[i]))

\* strconv.ParseInt(str, 10, 64)
ParseInt(str) ==
    IF str = <<>> THEN [val |-> 0, err |-> "invalid syntax"]
    ELSE LET signed == str[1] = "+" \/ str[1] = "-"
             neg    == str[1] = "-"
             rest   == IF signed THEN Tail(str) ELSE str
             un     == ParseUintLoop(rest, 1, 0)
         IN  IF rest = <<>> THEN [val |-> 0, err |-> "invalid syntax"]
             ELSE IF un.err # ErrNil THEN un
             ELSE IF ~neg /\ un.val >= 2 ^ (Bits - 1)
                 THEN [val |-> 0, err |-> "value out of range"]
             ELSE IF neg /\ un.val > 2 ^ (Bits - 1)
                 THEN [val |-> 0, err |-> "value out of range"]
             ELSE [val |-> IF neg THEN -un.val ELSE un.val, err |-> ErrNil]

\* strings.SplitN(str, "/", 3): the number of parts, and the first two parts
SplitCount(str) ==
    IF Cardinality({i \in 1 .. Len(str) : str[i] = "/"}) >= 2 THEN 3
    ELSE Cardinality({i \in 1 .. Len(str) : str[i] = "/"}) + 1

FirstSlash(str) == CHOOSE i \in 1 .. Len(str) : str[i] = "/" /\ \A j \in 1 .. (i - 1) : str[j] # "/"

ParseRationalString(str) ==
    IF SplitCount(str) # 2 THEN Ret(Zero, ErrFmtInvalid)
    ELSE LET numR == ParseInt(SubSeq(str, 1, FirstSlash(str) - 1))
             denR == ParseInt(SubSeq(str, FirstSlash(str) + 1, Len(str)))
         IN  IF numR.err # ErrNil THEN Ret(Zero, "parsing numerator: " \o numR.err)
             ELSE IF denR.err # ErrNil THEN Ret(Zero, "parsing denominator: " \o denR.err)
             ELSE Try(numR.val, denR.val)

\* the digits of a natural number, most significant first
RECURSIVE FormatUint(_)
FormatUint(k) == IF k < 10 THEN <<Digits[k + 1]>> ELSE Append(FormatUint(k \div 10), Digits[(k % 10) + 1])

\* the verb %d of fmt.Sprintf applied to an int64
FormatInt(k) == IF k < 0 THEN <<"-">> \o FormatUint(-k) ELSE FormatUint(k)

RationalString(x, sep) == FormatInt(Num(x)) \o sep \o FormatInt(Den(x))

String(x) == RationalString(x, <<"/">>)

\* --- DecimalString: the digits are bytes (ASCII codes) in a mutable slice ---

\* the byte of a character and the character of a byte, for the bytes that
\* DecimalString handles: '-' '.' '0'..'9' and ':' (the byte after '9')
Ord(ch) ==
    IF ch = "-" THEN 45 ELSE IF ch = "." THEN 46 ELSE IF ch = ":" THEN 58
    ELSE 48 + DigitVal(ch)

Chr(b) ==
    IF b = 45 THEN "-" ELSE IF b = 46 THEN "." ELSE IF b = 58 THEN ":"
    ELSE Digits[b - 47]

\* strconv.AppendInt(digits, q, 10)
AppendInt(digits, q) == digits \o [i \in 1 .. Len(FormatInt(q)) |-> Ord(FormatInt(q)[i])]

\* DecimalNarrow with the test dropped: the remainder is always multiplied
\* in ordinary arithmetic
DecimalNarrowAlways(r) == TRUE

\* the test for ordinary arithmetic (rat128.go line 585)
DecimalNarrow(r) == r < QuoGo(MaxInt64, 10)

\* one more decimal digit q and the new remainder r from a nonzero remainder
\* (rat128.go lines 585-600); rh is the high word handed to bits.Div64, which
\* may panic
DecimalStep(r, n) ==
    IF DecimalNarrow(r)
    THEN LET r10 == ToInt64(r * 10)
         IN  [q |-> QuoGo(r10, n), r |-> RemGo(r10, n),
              wide |-> FALSE, rh |-> 0, panic |-> FALSE]
    ELSE LET w   == Mul64(ToUint64(r), 10)
             quo == Div64(w.hi, w.lo, ToUint64(n)) % TwoW
             rem == (w.hi * TwoW + w.lo) % ToUint64(n)
         IN  [q |-> ToInt64(quo), r |-> ToInt64(rem),
              wide |-> TRUE, rh |-> w.hi, panic |-> Div64Panics(w.hi, ToUint64(n))]

\* the loop that extracts prec+1 decimal digits (rat128.go lines 577-602)
RECURSIVE DecimalDigits(_, _, _, _, _)
DecimalDigits(digits, r, n, i, prec) ==
    IF ~(i < prec + 1) THEN [d |-> digits, panic |-> FALSE]
    ELSE IF r = 0 THEN DecimalDigits(Append(digits, 48), r, n, i + 1, prec)
    ELSE LET st == DecimalStep(r, n)
         IN  IF st.panic THEN [d |-> digits, panic |-> TRUE]
             ELSE DecimalDigits(Append(digits, (st.q + 48) % 256), st.r, n, i + 1, prec)

\* the carry loop (rat128.go lines 606-612); i is a Go index, and writing
\* digits[-1] is an index-out-of-range panic
RECURSIVE DecimalCarry(_, _)
DecimalCarry(digits, i) ==
    IF i < 0 THEN [d |-> digits, panic |-> FALSE]
    ELSE IF digits[i + 1] <= 57 THEN [d |-> digits, panic |-> FALSE]
    ELSE IF i = 0 THEN [d |-> digits, panic |-> TRUE]
    ELSE DecimalCarry([digits EXCEPT ![i + 1] = 48, ![i] = (@ + 1) % 256], i - 1)

\* rounding by the digit in the last position (rat128.go lines 603-613)
DecimalRound(digits) ==
    LET k == Len(digits) - 1
    IN  IF digits[k + 1] >= 53
        THEN DecimalCarry([digits EXCEPT ![k] = (@ + 1) % 256], k - 1)
        ELSE [d |-> digits, panic |-> FALSE]

\* the shift for the radix point (rat128.go lines 622-628) reads and writes
\* digits[dotIndex]: an index-out-of-range panic when dotIndex is negative
DecimalShiftPanics(digits, prec) == prec > 0 /\ Len(digits) - prec - 1 < 0

\* the digit string that is written out (rat128.go lines 614-631)
DecimalWrite(digits, prec) ==
    LET start    == IF digits[1] = 48 THEN 1 ELSE 0
        dotIndex == Len(digits) - prec - 1
        shifted  == [i \in 1 .. Len(digits) |->
                        IF i - 1 > dotIndex THEN digits[i - 1]
                        ELSE IF i - 1 = dotIndex THEN 46 ELSE digits[i]]
    IN  IF prec > 0 THEN SubSeq(shifted, start + 1, Len(digits))
        ELSE SubSeq(digits, start + 1, Len(digits) - 1)

\* DecimalString: the result is a string (field str) unless the call panics
DecimalString(x, prec0) ==
    LET prec   == IF prec0 < 0 THEN 0 ELSE prec0
        n      == Den(x)
        m      == IF Num(x) < 0 THEN ToInt64(-Num(x)) ELSE Num(x)
        sign   == IF Num(x) < 0 THEN <<"-">> ELSE <<>>
        digits == DecimalDigits(AppendInt(<<48>>, QuoGo(m, n)), RemGo(m, n), n, 0, prec)
        round  == DecimalRound(digits.d)
        out    == DecimalWrite(round.d, prec)
    IN  IF n = 0 \/ digits.panic \/ round.panic \/ DecimalShiftPanics(round.d, prec)
        THEN [str |-> <<>>, panic |-> TRUE]
        ELSE [str |-> sign \o [i \in 1 .. Len(out) |-> Chr(out[i])], panic |-> FALSE]

\* --- ParseDecimalString ---

\* fmt.Errorf(prefix + "%w", err): a new error value that wraps err
Wrap(prefix, e) == prefix \o ": " \o e

MaxOf(a, b) == IF a > b THEN a ELSE b

\* the scanning loop (rat128.go lines 109-135); i is a Go index, st holds neg,
\* firstNonzeroIndex, lastNonzeroIndex, dotIndex, digits, and bad tells that
\* the loop returned ErrFmtInvalid
RECURSIVE ScanDecimal(_, _, _)
ScanDecimal(str, i, st) ==
    IF i >= Len(str) THEN st
    ELSE LET r == str[i + 1]
         IN  IF r = "-"
             THEN IF i # 0 THEN [st EXCEPT !.bad = TRUE]
                  ELSE ScanDecimal(str, i + 1, [st EXCEPT !.neg = TRUE])
             ELSE IF IsDigit(r) /\ r # "0"
             THEN ScanDecimal(str, i + 1,
                      [st EXCEPT !.first = IF @ < 0 THEN i ELSE @,
                                 !.last = i,
                                 !.digits = @ + 1])
             ELSE IF r = "0"
             THEN ScanDecimal(str, i + 1, [st EXCEPT !.digits = @ + 1])
             ELSE IF r = "."
             THEN IF st.dot >= 0 THEN [st EXCEPT !.bad = TRUE]
                  ELSE ScanDecimal(str, i + 1,
                           [st EXCEPT !.dot = i,
                                      !.first = IF @ < 0 THEN i ELSE @])
             ELSE [st EXCEPT !.bad = TRUE]

\* the loop that computes place = 10^pow10 (rat128.go lines 153-161)
RECURSIVE ParsePlaceLoop(_, _, _)
ParsePlaceLoop(place, i, pow10) ==
    IF ~(i < pow10) THEN Ret(place, ErrNil)
    ELSE LET r == TryMul(place, New(10, 1).v)
         IN  IF r.panic THEN r
             ELSE IF r.err # ErrNil
             THEN Ret(Zero, Wrap("computing pow10(" \o ToString(i + 1) \o ")", r.err))
             ELSE ParsePlaceLoop(r.v, i + 1, pow10)

\* ParsePlace without the loop: the place of the first digit stays 1
ParsePlaceOne(pow10) == Ret(New(1, 1).v, ErrNil)

ParsePlace(pow10) == ParsePlaceLoop(New(1, 1).v, 0, pow10)

\* if err != nil { return N{}, fmt.Errorf("<what> %d: %w", i, err) }
Checked(r, what, i) ==
    IF r.panic \/ r.err = ErrNil THEN r
    ELSE Ret(Zero, Wrap(what \o ToString(i), r.err))

Failed(r) == r.panic \/ r.err # ErrNil

\* result.TryAdd(placed) (rat128.go lines 183-186)
ParseDigitAdd(i, result, placed) ==
    IF Failed(placed) THEN placed
    ELSE Checked(TryAdd(result, placed.v), "adding digit at index ", i)

\* digit.TryMul(place) and the addition (rat128.go lines 178-186)
ParseDigitSum(str, i, place, result) ==
    ParseDigitAdd(i, result,
        Checked(TryMul(New(DigitVal(str[i + 1]), 1).v, place), "placing digit at index ", i))

\* the loop over the digits (rat128.go lines 162-187): pl is the place of
\* the digit at index i, sum the result with that digit added
RECURSIVE ParseDigits(_, _, _, _, _, _, _)
ParseDigitsNext(str, i, last, dot, place, sum) ==
    IF Failed(sum) THEN sum
    ELSE ParseDigits(str, i + 1, last, dot, FALSE, place, sum.v)

ParseDigitsAt(str, i, last, dot, pl, result) ==
    IF Failed(pl) THEN pl
    ELSE ParseDigitsNext(str, i, last, dot, pl.v, ParseDigitSum(str, i, pl.v, result))

ParseDigits(str, i, last, dot, first, place, result) ==
    IF ~(i <= last) THEN Ret(result, ErrNil)
    ELSE IF i = dot THEN ParseDigits(str, i + 1, last, dot, FALSE, place, result)
    ELSE ParseDigitsAt(str, i, last, dot,
             IF first THEN Ret(place, ErrNil)
             ELSE Checked(TryDiv(place, New(10, 1).v),
                          "updating place for digit at index ", i),
             result)

\* NoDigits with the test dropped: a text without digits goes on
NoDigitsNever(st) == FALSE

\* the test after the scanning loop (rat128.go lines 136-138)
NoDigits(st) == st.digits = 0

\* lastNonzeroIndex after the scan (rat128.go lines 142-146)
LastIndex(str, st) ==
    IF st.dot >= 0 THEN MaxOf(st.last, st.dot - 1) ELSE MaxOf(st.last, Len(str) - 1)

\* pow10 (rat128.go lines 147-152)
PlacePower(st, last) ==
    IF st.dot < 0 THEN last - st.first
    ELSE IF st.first < st.dot THEN st.dot - st.first - 1
    ELSE 0

\* the sign is applied to the result (rat128.go lines 188-191)
ParseSigned(st, res) ==
    IF Failed(res) THEN res
    ELSE IF st.neg THEN Ret(Neg(res.v), ErrNil)
    ELSE res

ParsePlaced(str, st, last, place) ==
    IF Failed(place) THEN place
    ELSE ParseSigned(st, ParseDigits(str, st.first, last, st.dot, TRUE, place.v, Zero))

\* what follows the scanning loop (rat128.go lines 136-191)
ParseScanned(str, st) ==
    IF st.bad THEN Ret(Zero, ErrFmtInvalid)
    ELSE IF NoDigits(st) THEN Ret(Zero, ErrFmtInvalid)
    ELSE IF st.first < 0 THEN Ret(Zero, ErrNil)
    ELSE ParsePlaced(str, st, LastIndex(str, st),
                     ParsePlace(PlacePower(st, LastIndex(str, st))))

ParseDecimalString(str) ==
    ParseScanned(str, ScanDecimal(str, 0, [neg |-> FALSE, first |-> -1, last |-> -1,
                                           dot |-> -1, digits |-> 0, bad |-> FALSE]))

\* ------------------------------------------------------------------------
\* The state machine: a caller holding two operands applies the operations
\* ------------------------------------------------------------------------

\* the magnitudes operands are built from
NumMags == {k \in 0 .. MaxInt64 : k <= NumLow \/ k >= MaxInt64 - MagHigh}

DenMags == {k \in 1 .. MaxInt64 : k <= DenLow \/ k >= MaxInt64 - MagHigh}

InDomain(v) == AbsZ(v.m) \in NumMags /\ v.n + 1 \in DenMags

\* the valid values over these magnitudes (each is what Try returns for its
\* own numerator and denominator)
Operands ==
    {v \in [m : {k \in Int64 : AbsZ(k) \in NumMags}, n : {k - 1 : k \in DenMags}] : IsValid(v)}

\* the text handed to the parser
Alphabet == {"-", "/", "0", "1", "3", "x"}

RECURSIVE StringsOfLen(_)
StringsOfLen(k) ==
    IF k = 0 THEN {<<>>}
    ELSE {Append(t, ch) : t \in StringsOfLen(k - 1), ch \in Alphabet}

Strings == UNION {StringsOfLen(k) : k \in 0 .. MaxStrLen}

VARIABLES caller, x, y, t, num, den, s, prec, fv, op, z, c, gcd, ok, out, fres

vars == <<caller, x, y, t, num, den, s, prec, fv, op, z, c, gcd, ok, out, fres>>

\* what a caller hands to the operations: the operands x, y, t, the int64
\* arguments num, den, the text s, the precision prec and the float64 fv
args == <<caller, x, y, t, num, den, s, prec, fv>>

NoResult == Ret(Zero, ErrNil)

NoGCD == [a |-> 0, b |-> 0, d |-> 0, panic |-> FALSE, wrapped |-> FALSE]

\* nothing has been called yet
Idle ==
    /\ op = "none" /\ z = NoResult /\ c = 0 /\ gcd = NoGCD /\ ok = FALSE /\ out = <<>>
    /\ fres = FloatZero

\* --- construction: Try(num, den) for every pair of int64 arguments, and
\* --- ParseRationalString(s) for every text

InitTry ==
    /\ \/ caller = "Try" /\ num \in Int64 /\ den \in Int64 /\ s = <<>>
       \/ caller = "Parse" /\ num = 0 /\ den = 1 /\ s \in Strings
    /\ x = Zero /\ y = Zero /\ t = Zero /\ prec = 0
    /\ fv = FloatZero
    /\ Idle

DoTry ==
    /\ caller = "Try" /\ op = "none"
    /\ op' = "Try"
    /\ z' = Try(num, den)
    /\ UNCHANGED <<args, fres, c, gcd, ok, out>>

DoParseRationalString ==
    /\ caller = "Parse" /\ op = "none"
    /\ op' = "ParseRationalString"
    /\ z' = ParseRationalString(s)
    /\ UNCHANGED <<args, fres, c, gcd, ok, out>>

DoNew ==
    /\ caller = "Try" /\ op = "none"
    /\ op' = "New"
    /\ z' = New(num, den)
    /\ UNCHANGED <<args, fres, c, gcd, ok, out>>

NextTry == DoTry \/ DoNew \/ DoParseRationalString

SpecTry == InitTry /\ [][NextTry]_vars

\* --- arithmetic on two valid operands ---

InitArith ==
    /\ caller = "Arith"
    /\ x \in Operands
    /\ y \in Operands
    /\ t = Zero /\ num = 0 /\ den = 1 /\ s = <<>> /\ prec = 0
    /\ fv = FloatZero
    /\ Idle

Init == InitArith \/ InitTry

Apply(name, r) ==
    /\ caller = "Arith" /\ op = "none"
    /\ op' = name
    /\ z' = r
    /\ UNCHANGED <<args, fres, c, gcd, ok, out>>

DoTryAdd == Apply("TryAdd", TryAdd(x, y))

DoTrySub == Apply("TrySub", TrySub(x, y))

DoTryMul == Apply("TryMul", TryMul(x, y))

DoTryDiv == Apply("TryDiv", TryDiv(x, y))

DoTryInv == Apply("TryInv", TryInv(x))

DoInv == Apply("Inv", Inv(x))

DoAdd == Apply("Add", Add(x, y))

DoSub == Apply("Sub", Sub(x, y))

DoMul == Apply("Mul", Mul(x, y))

DoDiv == Apply("Div", Div(x, y))

DoNeg == Apply("Neg", Ret(Neg(x), ErrNil))

DoAbs == Apply("Abs", Ret(Abs(x), ErrNil))

DoCmp ==
    /\ caller = "Arith" /\ op = "none"
    /\ op' = "Cmp"
    /\ z' = [v |-> Zero, err |-> Cmp(x, y).err, panic |-> Cmp(x, y).panic]
    /\ c' = Cmp(x, y).c
    /\ UNCHANGED <<args, fres, gcd, ok, out>>

\* the caller keeps a returned value as its next operand
Store ==
    /\ op \in {"TryAdd", "TrySub", "TryMul", "TryDiv", "TryInv", "Neg", "Abs"}
    /\ z.err = ErrNil /\ ~z.panic
    /\ InDomain(z.v)
    /\ \/ x' = z.v /\ y' = y
       \/ y' = z.v /\ x' = x
    /\ op' = "none" /\ z' = NoResult
    /\ UNCHANGED <<caller, t, num, den, s, prec, fv, c, gcd, ok, out, fres>>

Next ==
    \/ DoTry
    \/ DoNew
    \/ DoParseRationalString
    \/ Store
    \/ DoTryAdd
    \/ DoTrySub
    \/ DoTryMul
    \/ DoTryDiv
    \/ DoTryInv
    \/ DoInv
    \/ DoAdd
    \/ DoSub
    \/ DoMul
    \/ DoDiv
    \/ DoNeg
    \/ DoAbs
    \/ DoCmp

Spec == Init /\ [][Next]_vars

\* --- three operands: a second call takes the result of the first ---

\* the valid values whose numerator magnitude is at most AssocLow or MaxInt64
\* and whose denominator is at most AssocLow or MaxInt64
AssocOperands ==
    {v \in [m : {k \in Int64 : AbsZ(k) <= AssocLow \/ AbsZ(k) = MaxInt64},
            n : {k - 1 : k \in (1 .. AssocLow) \cup {MaxInt64}}] : IsValid(v)}

InitAssoc ==
    /\ caller = "Assoc"
    /\ x \in AssocOperands
    /\ y \in AssocOperands
    /\ t \in AssocOperands
    /\ num = 0 /\ den = 1 /\ s = <<>> /\ prec = 0
    /\ fv = FloatZero
    /\ Idle

\* x.TryAdd(y), then the sum's TryAdd(t)
DoTryAddXY ==
    /\ caller = "Assoc" /\ op = "none"
    /\ op' = "TryAdd"
    /\ z' = TryAdd(x, y)
    /\ UNCHANGED <<args, fres, c, gcd, ok, out>>

DoTryAddT ==
    /\ caller = "Assoc" /\ op = "TryAdd" /\ z.err = ErrNil /\ ~z.panic
    /\ op' = "TryAdd.TryAdd"
    /\ z' = TryAdd(z.v, t)
    /\ UNCHANGED <<args, fres, c, gcd, ok, out>>

\* x.TryMul(y), then the product's TryMul(t)
DoTryMulXY ==
    /\ caller = "Assoc" /\ op = "none"
    /\ op' = "TryMul"
    /\ z' = TryMul(x, y)
    /\ UNCHANGED <<args, fres, c, gcd, ok, out>>

DoTryMulT ==
    /\ caller = "Assoc" /\ op = "TryMul" /\ z.err = ErrNil /\ ~z.panic
    /\ op' = "TryMul.TryMul"
    /\ z' = TryMul(z.v, t)
    /\ UNCHANGED <<args, fres, c, gcd, ok, out>>

NextAssoc == DoTryAddXY \/ DoTryAddT \/ DoTryMulXY \/ DoTryMulT

SpecAssoc == InitAssoc /\ [][NextAssoc]_vars

\* --- ExtGCD(num, den) and GCD(num, den) for every pair of int64 arguments ---

InitGCD ==
    /\ caller = "GCD"
    /\ num \in Int64 /\ den \in Int64
    /\ x = Zero /\ y = Zero /\ t = Zero /\ s = <<>> /\ prec = 0
    /\ fv = FloatZero
    /\ Idle

DoExtGCD ==
    /\ caller = "GCD" /\ op = "none"
    /\ op' = "ExtGCD"
    /\ gcd' = [a |-> ExtGCD(num, den).a, b |-> ExtGCD(num, den).b,
               d |-> ExtGCD(num, den).d, panic |-> ExtGCD(num, den).panic,
               wrapped |-> ExtGCDWraps(1, 0, 0, 1, num, den)]
    /\ UNCHANGED <<args, fres, z, c, ok, out>>

DoGCD ==
    /\ caller = "GCD" /\ op = "none"
    /\ op' = "GCD"
    /\ gcd' = [a |-> 0, b |-> 0, d |-> GCD(num, den), panic |-> GCDPanics(num, den),
               wrapped |-> FALSE]
    /\ UNCHANGED <<args, fres, z, c, ok, out>>

NextGCD == DoExtGCD \/ DoGCD

SpecGCD == InitGCD /\ [][NextGCD]_vars

\* --- the loop of ExtGCD, one iteration at a time; gcd holds the locals ---

GCDOperands == {k \in Int64 : AbsZ(k) <= GCDLow \/ AbsZ(k) >= MaxInt64 - MagHigh}

InitExtGCD ==
    /\ caller = "ExtGCD"
    /\ num \in GCDOperands /\ den \in GCDOperands
    /\ x = Zero /\ y = Zero /\ t = Zero /\ s = <<>> /\ prec = 0
    /\ fv = FloatZero
    /\ Idle

\* gcd.go lines 18-22
EnterExtGCD ==
    /\ caller = "ExtGCD" /\ op = "none"
    /\ op' = "ExtGCD.loop"
    /\ gcd' = [a0 |-> 1, a |-> 0, b0 |-> 0, b |-> 1, c |-> num, d |-> den]
    /\ UNCHANGED <<args, fres, z, c, ok, out>>

\* c/d with d = 0: the integer divide by zero panic (gcd.go line 24)
PanicExtGCD ==
    /\ op = "ExtGCD.loop" /\ gcd.d = 0
    /\ op' = "ExtGCD.panic"
    /\ UNCHANGED <<args, fres, z, c, gcd, ok, out>>

\* r == 0: return a, b, d (gcd.go lines 25-27)
ReturnExtGCD ==
    /\ op = "ExtGCD.loop" /\ gcd.d # 0 /\ RemGo(gcd.c, gcd.d) = 0
    /\ op' = "ExtGCD.return"
    /\ UNCHANGED <<args, fres, z, c, gcd, ok, out>>

\* r != 0: the loop goes round (gcd.go lines 28-35)
IterateExtGCD ==
    /\ op = "ExtGCD.loop" /\ gcd.d # 0 /\ RemGo(gcd.c, gcd.d) # 0
    /\ gcd' = ExtGCDStep(gcd.a0, gcd.a, gcd.b0, gcd.b, gcd.c, gcd.d)
    /\ UNCHANGED <<args, fres, op, z, c, ok, out>>

NextExtGCD == EnterExtGCD \/ PanicExtGCD \/ ReturnExtGCD \/ IterateExtGCD

\* the code is sequential: a step that can be taken is taken
SpecExtGCD == InitExtGCD /\ [][NextExtGCD]_vars /\ WF_vars(NextExtGCD)

\* --- IsValid on every value of the struct N, valid or not ---

InitValid ==
    /\ caller = "Valid"
    /\ x \in [m : Int64, n : Int64]
    /\ y = Zero /\ t = Zero /\ num = 0 /\ den = 1 /\ s = <<>> /\ prec = 0
    /\ fv = FloatZero
    /\ Idle

DoIsValid ==
    /\ caller = "Valid" /\ op = "none"
    /\ op' = "IsValid"
    /\ ok' = IsValid(x)
    /\ UNCHANGED <<args, fres, z, c, gcd, out>>

NextValid == DoIsValid

SpecValid == InitValid /\ [][NextValid]_vars

\* --- DecimalString on every valid value, for every precision ---

ValidN == {v \in [m : Int64, n : Int64] : IsValid(v)}

InitDecimal ==
    /\ caller = "Decimal"
    /\ x \in ValidN
    /\ prec \in -1 .. MaxPrec
    /\ y = Zero /\ t = Zero /\ num = 0 /\ den = 1 /\ s = <<>>
    /\ fv = FloatZero
    /\ Idle

DoDecimalString ==
    /\ caller = "Decimal" /\ op = "none"
    /\ op' = "DecimalString"
    /\ out' = DecimalString(x, prec).str
    /\ z' = [v |-> Zero, err |-> ErrNil, panic |-> DecimalString(x, prec).panic]
    /\ UNCHANGED <<args, fres, c, gcd, ok>>

NextDecimal == DoDecimalString

SpecDecimal == InitDecimal /\ [][NextDecimal]_vars

\* --- ParseDecimalString(s) for every text ---

DecAlphabet == {"-", ".", "0", "2", "5", "x"}

RECURSIVE DecStringsOfLen(_)
DecStringsOfLen(k) ==
    IF k = 0 THEN {<<>>}
    ELSE {Append(u, ch) : u \in DecStringsOfLen(k - 1), ch \in DecAlphabet}

DecStrings == UNION {DecStringsOfLen(k) : k \in 0 .. MaxDecLen}

InitParseDecimal ==
    /\ caller = "ParseDecimal"
    /\ s \in DecStrings
    /\ x = Zero /\ y = Zero /\ t = Zero /\ num = 0 /\ den = 1 /\ prec = 0
    /\ fv = FloatZero
    /\ Idle

DoParseDecimalString ==
    /\ caller = "ParseDecimal" /\ op = "none"
    /\ op' = "ParseDecimalString"
    /\ z' = ParseDecimalString(s)
    /\ UNCHANGED <<args, fres, c, gcd, ok, out>>

NextParseDecimal == DoParseDecimalString

SpecParseDecimal == InitParseDecimal /\ [][NextParseDecimal]_vars

\* --- text and back for every valid x, and the text "num/den" for every
\* num and every positive den ---

InitRound ==
    /\ \/ /\ caller = "Round" /\ x \in ValidN
          /\ num = 0 /\ den = 1 /\ s = <<>>
       \/ /\ caller = "Parse" /\ x = Zero
          /\ num \in Int64 /\ den \in 1 .. MaxInt64
          /\ s = FormatInt(num) \o <<"/">> \o FormatInt(den)
    /\ y = Zero /\ t = Zero /\ prec = 0
    /\ fv = FloatZero
    /\ Idle

DoRationalString ==
    /\ caller = "Round" /\ op = "none"
    /\ op' = "RationalString"
    /\ out' = RationalString(x, <<"/">>)
    /\ UNCHANGED <<args, fres, z, c, gcd, ok>>

DoString ==
    /\ caller = "Round" /\ op = "none"
    /\ op' = "String"
    /\ out' = String(x)
    /\ UNCHANGED <<args, fres, z, c, gcd, ok>>

\* the text is handed to ParseRationalString
DoParseBack ==
    /\ caller = "Round" /\ op \in {"RationalString", "String"}
    /\ op' = op \o ".ParseRationalString"
    /\ z' = ParseRationalString(out)
    /\ UNCHANGED <<args, fres, c, gcd, ok, out>>

NextRound == DoRationalString \/ DoString \/ DoParseBack \/ DoParseRationalString

SpecRound == InitRound /\ [][NextRound]_vars

\* --- float64: FromFloat64 on every float, Float64 on every valid value ---

\* the finite floats whose exponent reaches past both overflow tests
Floats ==
    {FloatZero} \cup [s : {-1, 1}, m : 2 ^ (MantBits - 1) .. 2 ^ MantBits - 1,
                      e : -(2 * Bits) .. 2 * Bits]

InitFloat ==
    /\ \/ caller = "FromFloat" /\ fv \in Floats /\ x = Zero
       \/ caller = "ToFloat" /\ fv = FloatZero /\ x \in ValidN
    /\ y = Zero /\ t = Zero /\ num = 0 /\ den = 1 /\ s = <<>> /\ prec = 0
    /\ Idle

DoFromFloat64 ==
    /\ caller = "FromFloat" /\ op = "none"
    /\ op' = "FromFloat64"
    /\ z' = FromFloat64(fv)
    /\ UNCHANGED <<args, fres, c, gcd, ok, out>>

DoFloat64 ==
    /\ caller = "ToFloat" /\ op = "none"
    /\ op' = "Float64"
    /\ fres' = Float64(x).v
    /\ ok' = Float64(x).exact
    /\ UNCHANGED <<args, z, c, gcd, out>>

\* the float that Float64 returned is handed to FromFloat64
DoFloat64Back ==
    /\ caller = "ToFloat" /\ op = "Float64"
    /\ op' = "Float64.FromFloat64"
    /\ z' = FromFloat64(fres)
    /\ UNCHANGED <<args, fres, c, gcd, ok, out>>

NextFloat == DoFromFloat64 \/ DoFloat64 \/ DoFloat64Back

SpecFloat == InitFloat /\ [][NextFloat]_vars

\* --- the two paths of TryAdd and TryMul on operands around the guards ---

PathOperands ==
    {v \in [m : {k \in Int64 : AbsZ(k) <= MaxInt32 + PathHigh},
            n : 0 .. MaxInt32 + PathHigh - 1] : IsValid(v)}

InitPath ==
    /\ caller = "Path"
    /\ x \in PathOperands
    /\ y \in PathOperands
    /\ t = Zero /\ num = 0 /\ den = 1 /\ s = <<>> /\ prec = 0
    /\ fv = FloatZero
    /\ Idle

ApplyPath(name, r) ==
    /\ caller = "Path" /\ op = "none"
    /\ op' = name
    /\ z' = r
    /\ UNCHANGED <<args, fres, c, gcd, ok, out>>

DoTryAddNarrow == AddIsNarrow(x, y) /\ ApplyPath("TryAdd.narrow", TryAddNarrow(x, y))

DoTryAddWide == ApplyPath("TryAdd.wide", TryAddWide(x, y))

DoTryMulNarrow ==
    /\ Sign(x) * Sign(y) # 0 /\ ~MulCancel(x, y).panic /\ MulIsNarrow(MulCancel(x, y))
    /\ ApplyPath("TryMul.narrow", TryMulNarrow(Sign(x) * Sign(y), MulCancel(x, y)))

DoTryMulWide ==
    /\ Sign(x) * Sign(y) # 0 /\ ~MulCancel(x, y).panic
    /\ ApplyPath("TryMul.wide", TryMulWide(Sign(x) * Sign(y), MulCancel(x, y)))

NextPath == DoTryAddNarrow \/ DoTryAddWide \/ DoTryMulNarrow \/ DoTryMulWide

SpecPath == InitPath /\ [][NextPath]_vars

\* ------------------------------------------------------------------------
\* Mathematical reference notions (over the unbounded integers)
\* ------------------------------------------------------------------------

\* the greatest common divisor of the naturals a and b (Euclid)
RECURSIVE MathGCD(_, _)
MathGCD(a, b) == IF b = 0 THEN a ELSE MathGCD(b, a % b)

\* the sign of an integer
SignZ(v) == IF v = 0 THEN 0 ELSE IF v < 0 THEN -1 ELSE 1

\* a value-returning call has returned normally with a nil error
Returned(names) == op \in names /\ z.err = ErrNil /\ ~z.panic

\* the properties of a valid value, stated on its numerator and denominator
IsReducedForm(v) ==
    /\ Den(v) > 0
    /\ Num(v) # MinInt64
    /\ MathGCD(AbsZ(Num(v)), Den(v)) = 1
    /\ IsValid(v)

\* ------------------------------------------------------------------------
\* Claims
\* ------------------------------------------------------------------------

\* C1: for every int64 num (MinInt64 included) and every den > 0, Try(num, den)
\* returns either a nil error and the valid value equal to num/den in lowest
\* terms, the sign of num carried by the numerator, or ErrNumOverflow; and
\* ErrNumOverflow exactly when the reduced numerator num / gcd(|num|, den) is
\* MinInt64.
C1_TryContract ==
    (op = "Try" /\ den > 0) =>
        LET g  == MathGCD(AbsZ(num), den)
            rn == num \div g
            rd == den \div g
        IN  /\ ~z.panic
            /\ z.err \in {ErrNil, ErrNumOverflow}
            /\ (z.err = ErrNumOverflow) <=> (rn = MinInt64)
            /\ z.err = ErrNil =>
                   /\ Num(z.v) = rn
                   /\ Den(z.v) = rd
                   /\ sgn64(Num(z.v)) = sgn64(num)
                   /\ IsReducedForm(z.v)

\* C2: validity is closed under the operations: every value returned with a
\* nil error by TryAdd, TrySub, TryMul, TryDiv, TryInv, Neg or Abs on valid
\* operands, after any sequence of such operations, is valid (Den > 0,
\* gcd(|Num|, Den) = 1, Num # MinInt64, zero stored only as 0/1, IsValid).
C2_ValidityClosed ==
    /\ IsValid(x) /\ IsValid(y)
    /\ Returned({"TryAdd", "TrySub", "TryMul", "TryDiv", "TryInv", "Neg", "Abs"}) =>
           /\ IsReducedForm(z.v)
           /\ Num(z.v) = 0 => z.v = Zero

\* a wide-path product that needed cross-cancellation and returned a value
C2_Witness ==
    /\ Returned({"TryMul"})
    /\ GCD(abs64(Num(x)), Den(y)) # 1
    /\ ~MulIsNarrow(MulCancel(x, y))
    /\ z.v # Zero

\* C3: whenever TryAdd(x, y) returns a nil error, the returned value is the
\* exact rational sum x + y in lowest terms, never a wrapped or truncated
\* result, on the narrow and on the wide path.
C3_AddExact ==
    Returned({"TryAdd"}) =>
        /\ Num(z.v) * (Den(x) * Den(y)) = (Num(x) * Den(y) + Num(y) * Den(x)) * Den(z.v)
        /\ IsReducedForm(z.v)

\* a wide-path sum of operands of opposite signs, x < 0 < y and |x| < |y|,
\* whose cross product needs the high word
C3_Witness ==
    /\ Returned({"TryAdd"})
    /\ ~AddIsNarrow(x, y)
    /\ Num(x) < 0 /\ Num(y) > 0
    /\ AbsZ(Num(x)) * Den(y) < Num(y) * Den(x)
    /\ Num(y) * Den(x) >= TwoW
    /\ Num(z.v) > 0

\* the exact sum of two values over the integers, in lowest terms
SumNum(v, w) == Num(v) * Den(w) + Num(w) * Den(v)

SumDen(v, w) == Den(v) * Den(w)

SumOverflows(v, w) ==
    LET g == MathGCD(AbsZ(SumNum(v, w)), SumDen(v, w))
    IN  AbsZ(SumNum(v, w)) \div g > MaxInt64 \/ SumDen(v, w) \div g > MaxInt64

\* C4: TryAdd(x, y) returns a non-nil error if and only if the exact sum x + y
\* reduced to lowest terms has |numerator| > MaxInt64 or denominator >
\* MaxInt64; an intermediate value that does not fit while the reduced sum
\* fits does not cause an error.
C4_AddErrorIffOverflow ==
    op = "TryAdd" => (~z.panic /\ ((z.err # ErrNil) <=> SumOverflows(x, y)))

\* the exact product of two values over the integers, in lowest terms
ProdGCD(v, w) == MathGCD(AbsZ(Num(v) * Num(w)), Den(v) * Den(w))

ProdNum(v, w) == (Num(v) * Num(w)) \div ProdGCD(v, w)

ProdDen(v, w) == (Den(v) * Den(w)) \div ProdGCD(v, w)

\* C5: TryMul(x, y) returns a nil error and the exact product in lowest terms
\* if and only if the reduced product has |numerator| <= MaxInt64 and
\* denominator <= MaxInt64; otherwise it returns ErrNumOverflow when the
\* cancelled numerator product does not fit, else ErrDenOverflow.
C5_MulContract ==
    op = "TryMul" =>
        /\ ~z.panic
        /\ IF AbsZ(ProdNum(x, y)) <= MaxInt64 /\ ProdDen(x, y) <= MaxInt64
           THEN /\ z.err = ErrNil
                /\ Num(z.v) = ProdNum(x, y)
                /\ Den(z.v) = ProdDen(x, y)
                /\ IsReducedForm(z.v)
           ELSE z.err = IF AbsZ(ProdNum(x, y)) > MaxInt64 THEN ErrNumOverflow
                        ELSE ErrDenOverflow

\* a product whose raw numerator product does not fit but whose reduced
\* product does, returned on the wide path
C5_Witness ==
    /\ Returned({"TryMul"})
    /\ AbsZ(Num(x) * Num(y)) > MaxInt64
    /\ Den(x) * Den(y) > MaxInt64
    /\ ~MulIsNarrow(MulCancel(x, y))

\* C6: Cmp is a total order on valid values: for every pair of valid x and y
\* it returns -1 if x < y, 0 if x = y and 1 if x > y as rationals.
C6_CmpTotal ==
    op = "Cmp" =>
        /\ ~z.panic
        /\ c = SignZ(Num(x) * Den(y) - Num(y) * Den(x))

\* two values denote the same rational number
SameRational(v, w) == Num(v) * Den(w) = Num(w) * Den(v)

\* C7: for any two valid values, == (field by field) holds if and only if
\* they represent the same rational number; the zero value is the only valid
\* representation of 0.  Checked on the operands and on every returned value.
C7_EqualIffSameRational ==
    /\ (IsValid(x) /\ IsValid(y)) =>
           /\ (x = y) <=> SameRational(x, y)
           /\ Num(x) = 0 => x = Zero
    /\ (Returned({"TryAdd", "TrySub", "TryMul", "TryDiv", "TryInv", "Neg", "Abs"})
            /\ IsValid(z.v) /\ IsValid(y)) =>
           /\ (z.v = y) <=> SameRational(z.v, y)
           /\ (z.v = x) <=> SameRational(z.v, x)
           /\ Num(z.v) = 0 => z.v = Zero

\* a difference computed on the wide path that is == to the second operand
C7_Witness ==
    /\ Returned({"TrySub"})
    /\ ~AddIsNarrow(x, Neg(y))
    /\ z.v = y
    /\ Den(y) > 1 /\ Num(y) < 0

\* C8: for every num and every den <= 0, Try(num, den) returns the zero value
\* together with ErrDenInvalid, and ParseRationalString of "m/0" surfaces the
\* same ErrDenInvalid; no value is constructed.
C8_DenInvalid ==
    /\ (op = "Try" /\ den <= 0) => z = Ret(Zero, ErrDenInvalid)
    /\ (op = "ParseRationalString" /\ \E k \in Int64 : s = FormatInt(k) \o <<"/", "0">>) =>
           z = Ret(Zero, ErrDenInvalid)

\* the text "-m/0" with m a digit has been parsed
C8_Witness ==
    /\ op = "ParseRationalString"
    /\ Len(s) = 4 /\ s[1] = "-" /\ s[3] = "/" /\ s[4] = "0"
    /\ IsDigit(s[2]) /\ s[2] # "0"
    /\ z.err = ErrDenInvalid

\* C9: the Try* operations never panic: for all int64 arguments of Try and
\* all valid operands of TryAdd, TrySub, TryMul, TryDiv and TryInv the call
\* returns normally; in particular ExtGCD is never entered with a zero
\* divisor and every bits.Div64 call of TryAdd has divisor > high word.
C9_TryNeverPanics ==
    op \in {"Try", "TryAdd", "TrySub", "TryMul", "TryDiv", "TryInv"} => ~z.panic

\* a wide-path sum whose 2*Bits-wide numerator has a nonzero high word has
\* returned (with the overflow error, the division being skipped)
C9_Witness ==
    /\ op = "TryAdd"
    /\ ~AddIsNarrow(x, y)
    /\ Num(x) > 0 /\ Num(y) > 0
    /\ SumNum(x, y) >= TwoW * GCD(Den(x), Den(y))
    /\ z = Ret(Zero, ErrNumOverflow)

\* C10: TryInv(x) returns ErrDivByZero if and only if x is zero; for every
\* nonzero valid x it returns a nil error and the valid value with numerator
\* Sign(x)*Den(x) and denominator |Num(x)|, never an overflow error, and
\* TryInv(TryInv(x)) == x.
C10_InvContract ==
    op = "TryInv" =>
        /\ ~z.panic
        /\ (z.err = ErrDivByZero) <=> (Num(x) = 0)
        /\ Num(x) = 0 => z.v = Zero
        /\ Num(x) # 0 =>
               /\ z.err = ErrNil
               /\ Num(z.v) = SignZ(Num(x)) * Den(x)
               /\ Den(z.v) = AbsZ(Num(x))
               /\ IsReducedForm(z.v)
               /\ TryInv(z.v) = Ret(x, ErrNil)

\* the inverse of a negative proper fraction has been taken
C10_Witness ==
    /\ op = "TryInv"
    /\ Num(x) < -1 /\ Den(x) > AbsZ(Num(x))
    /\ z.err = ErrNil /\ Num(z.v) < 0

\* ------------------------------------------------------------------------
\* C11: for every valid x (zero included), TryDiv(x, y) with y = 0 returns
\* ErrDivByZero and no value; for every nonzero valid y, Inv(y) returns
\* normally and TryDiv(x, y) returns exactly what TryMul(x, Inv(y)) returns,
\* value and error alike.
\* ------------------------------------------------------------------------
C11_DivContract ==
    op = "TryDiv" =>
        /\ IsZero(y) => z = Ret(Zero, ErrDivByZero)
        /\ ~IsZero(y) => ~Inv(y).panic /\ z = TryMul(x, Inv(y).v)

\* a division of zero by zero has been attempted
C11_Witness == op = "TryDiv" /\ IsZero(x) /\ IsZero(y) /\ z.err = ErrDivByZero

\* ------------------------------------------------------------------------
\* C12: New, Inv, Add, Sub, Mul, Div return what Try, TryInv, TryAdd,
\* TrySub, TryMul, TryDiv return when those return a nil error, and panic
\* with the identical error value (one of ErrDenInvalid, ErrNumOverflow,
\* ErrDenOverflow, ErrDivByZero) exactly when those return an error.
\* ------------------------------------------------------------------------

\* the unwrapping call's outcome u agrees with the outcome r of the Try form
Agrees(u, r) ==
    IF r.err = ErrNil THEN u = r
    ELSE /\ u.panic
         /\ u.err = r.err
         /\ u.err \in {ErrDenInvalid, ErrNumOverflow, ErrDenOverflow, ErrDivByZero}

C12_UnwrapAgrees ==
    /\ op = "New" => Agrees(z, Try(num, den))
    /\ op = "Inv" => Agrees(z, TryInv(x))
    /\ op = "Add" => Agrees(z, TryAdd(x, y))
    /\ op = "Sub" => Agrees(z, TrySub(x, y))
    /\ op = "Mul" => Agrees(z, TryMul(x, y))
    /\ op = "Div" => Agrees(z, TryDiv(x, y))

\* Div has panicked with the error of a division whose product overflows
C12_Witness ==
    op = "Div" /\ ~IsZero(y) /\ z.panic /\ z.err = ErrDenOverflow
        /\ TryDiv(x, y).err = ErrDenOverflow

\* ------------------------------------------------------------------------
\* C13: for every valid x, TryAdd(x, Neg(x)) returns a nil error and the
\* zero value N{}, on the narrow path and on the wide path.
\* ------------------------------------------------------------------------
C13_AdditiveInverse ==
    (op = "TryAdd" /\ y = Neg(x)) => z = Ret(Zero, ErrNil)

\* the largest operand has been added to its negation, on the wide path
C13_Witness ==
    op = "TryAdd" /\ y = Neg(x) /\ Num(x) = MaxInt64 /\ Den(x) = MaxInt64 - 1
        /\ ~AddIsNarrow(x, y) /\ z = Ret(Zero, ErrNil)

\* ------------------------------------------------------------------------
\* C14: for every nonzero valid x, TryMul(x, Inv(x)) returns a nil error
\* and the value 1/1; cross-cancellation keeps operands near MaxInt64 from
\* overflowing.
\* ------------------------------------------------------------------------
C14_MultiplicativeInverse ==
    (op = "TryMul" /\ ~IsZero(x) /\ ~Inv(x).panic /\ y = Inv(x).v)
        => z = Ret(N(1, 0), ErrNil)

\* a negative operand with numerator and denominator next to MaxInt64 has
\* been multiplied by its inverse
C14_Witness ==
    op = "TryMul" /\ Num(x) = -MaxInt64 /\ Den(x) = MaxInt64 - 1
        /\ y = Inv(x).v /\ z = Ret(N(1, 0), ErrNil)

\* ------------------------------------------------------------------------
\* C15: for all valid x, y, TryAdd(x, y) and TryAdd(y, x) return the same
\* value and the same error, and so do TryMul(x, y) and TryMul(y, x).
\* ------------------------------------------------------------------------
C15_Commutative ==
    /\ op = "TryAdd" => z = TryAdd(y, x)
    /\ op = "TryMul" => z = TryMul(y, x)

\* operands of opposite signs, the smaller cross product first, have been
\* added on the wide path
C15_Witness ==
    op = "TryAdd" /\ ~AddIsNarrow(x, y) /\ Sign(x) > 0 /\ Sign(y) < 0
        /\ SumNum(x, y) < 0 /\ z.err = ErrNil /\ ~z.panic /\ Sign(z.v) < 0

\* ------------------------------------------------------------------------
\* C16: for all valid x, y, t: if TryAdd(x, y), TryAdd(TryAdd(x, y), t),
\* TryAdd(y, t) and TryAdd(x, TryAdd(y, t)) all return nil errors, the two
\* results are ==; the same holds for TryMul.
\* ------------------------------------------------------------------------

\* x.TryAdd(y.TryAdd(t)) and x.TryMul(y.TryMul(t))
AddRight(v, w, u) == TryAdd(v, TryAdd(w, u).v)

MulRight(v, w, u) == TryMul(v, TryMul(w, u).v)

C16_Associative ==
    /\ (op = "TryAdd.TryAdd" /\ z.err = ErrNil /\ ~z.panic
            /\ TryAdd(y, t).err = ErrNil /\ AddRight(x, y, t).err = ErrNil)
        => z.v = AddRight(x, y, t).v
    /\ (op = "TryMul.TryMul" /\ z.err = ErrNil /\ ~z.panic
            /\ TryMul(y, t).err = ErrNil /\ MulRight(x, y, t).err = ErrNil)
        => z.v = MulRight(x, y, t).v

\* three nonzero operands have been added on the wide path, both groupings
\* return nil errors, and no intermediate sum is zero
C16_Witness ==
    /\ op = "TryAdd.TryAdd" /\ z.err = ErrNil /\ ~z.panic
    /\ TryAdd(y, t).err = ErrNil /\ AddRight(x, y, t).err = ErrNil
    /\ ~IsZero(x) /\ ~IsZero(y) /\ ~IsZero(t)
    /\ ~AddIsNarrow(x, y) /\ ~AddIsNarrow(y, t)
    /\ ~IsZero(TryAdd(x, y).v) /\ ~IsZero(TryAdd(y, t).v)
    /\ Den(z.v) > 1

\* ------------------------------------------------------------------------
\* C17: for all positive int64 m and n up to MaxInt64, in either order,
\* ExtGCD(m, n) returns d equal to the greatest common divisor of m and n
\* and coefficients a, b with a*m + b*n = d over the mathematical integers;
\* no coefficient update wraps around int64 on the way; and GCD(m, n)
\* returns the same d.
\* ------------------------------------------------------------------------
C17_ExtGCDPositive ==
    (num > 0 /\ den > 0) =>
        /\ op = "ExtGCD" =>
               /\ ~gcd.panic
               /\ gcd.d = MathGCD(num, den)
               /\ gcd.a * num + gcd.b * den = gcd.d
               /\ ~gcd.wrapped
        /\ op = "GCD" => ~gcd.panic /\ gcd.d = MathGCD(num, den)

\* ExtGCD has run on MaxInt64 - 1 and MaxInt64, through several iterations
\* with both coefficients nonzero
C17_Witness ==
    op = "ExtGCD" /\ num = MaxInt64 - 1 /\ den = MaxInt64
        /\ gcd.d = 1 /\ gcd.a # 0 /\ gcd.b # 0

\* ------------------------------------------------------------------------
\* C18: for arbitrary signed int64 m and n, ExtGCD(m, n) returns (a, b, d)
\* with d >= 0, d the greatest common divisor of m and n, and
\* a*m + b*n == d, also when m or n is negative.
\* ------------------------------------------------------------------------
C18_ExtGCDSigned ==
    op = "ExtGCD" =>
        /\ ~gcd.panic
        /\ gcd.d >= 0
        /\ gcd.d = MathGCD(AbsZ(num), AbsZ(den))
        /\ ToInt64(ToInt64(gcd.a * num) + ToInt64(gcd.b * den)) = gcd.d

\* ------------------------------------------------------------------------
\* C19: IsValid(x) returns true if and only if the stored denominator field
\* x.n is neither negative nor MaxInt64 (the denominator x.n + 1 is then
\* between 1 and MaxInt64, MaxInt64 itself included) and re-reducing x
\* returns a nil error and a value identical to x; a valid x is in lowest
\* terms, zero is 0/1 only, and the numerator is never MinInt64.
\* ------------------------------------------------------------------------

\* v is a fraction in lowest terms over a denominator in 1 .. MaxInt64
LowestTerms(v) ==
    /\ v.m # MinInt64
    /\ v.n + 1 \in 1 .. MaxInt64
    /\ MathGCD(AbsZ(v.m), v.n + 1) = 1

C19_IsValid ==
    op = "IsValid" =>
        /\ ok <=> (x.n >= 0 /\ x.n # MaxInt64 /\ reduce(x) = Ret(x, ErrNil))
        /\ ok <=> LowestTerms(x)

\* a value with the denominator MaxInt64 has been found valid
C19_Witness ==
    op = "IsValid" /\ ok /\ Num(x) = MaxInt64 - 1 /\ Den(x) = MaxInt64

\* C19 as stated: IsValid(x) is true if and only if the denominator of x is
\* positive and is not MaxInt64, and re-reducing x yields x.
C19_AsStated ==
    op = "IsValid" =>
        (ok <=> (Den(x) > 0 /\ Den(x) # MaxInt64 /\ reduce(x) = Ret(x, ErrNil)))

\* ------------------------------------------------------------------------
\* C20: for every valid x and every prec (a negative prec counts as 0),
\* DecimalString(prec) is the decimal rendering of |x| rounded to prec
\* fractional digits, to nearest with ties away from zero, the carry
\* running through all digits and into a new leading digit; a '.' and
\* exactly prec digits follow the integer part when prec > 0 and no '.'
\* otherwise; a '-' leads whenever x < 0, also when the rounded magnitude is
\* zero.  This is big.Rat.FloatString(prec) of the same rational.
\* ------------------------------------------------------------------------

RECURSIVE Pow10(_)
Pow10(p) == IF p = 0 THEN 1 ELSE 10 * Pow10(p - 1)

\* |v| * 10^p rounded to the nearest integer, halves upward
RoundedScaled(v, p) == (2 * AbsZ(Num(v)) * Pow10(p) + Den(v)) \div (2 * Den(v))

\* the digits of k, with zeros in front up to the length p
RECURSIVE PadLeft(_, _)
PadLeft(str, p) == IF Len(str) >= p THEN str ELSE PadLeft(<<"0">> \o str, p)

FloatString(v, p0) ==
    LET p == IF p0 < 0 THEN 0 ELSE p0
        r == RoundedScaled(v, p)
    IN  (IF Num(v) < 0 THEN <<"-">> ELSE <<>>)
            \o FormatUint(r \div Pow10(p))
            \o (IF p > 0 THEN <<".">> \o PadLeft(FormatUint(r % Pow10(p)), p) ELSE <<>>)

C20_DecimalString ==
    op = "DecimalString" => ~z.panic /\ out = FloatString(x, prec)

\* -19/2 has been rendered without fractional digits: the tie rounds away
\* from zero and the carry makes a new leading digit
C20_Witness ==
    op = "DecimalString" /\ Num(x) = -19 /\ Den(x) = 2 /\ prec = 0
        /\ out = <<"-", "1", "0">>

\* ------------------------------------------------------------------------
\* Decimal text, read as mathematics
\* ------------------------------------------------------------------------

\* the text without its leading hyphen
DecBody(v) == IF Len(v) > 0 /\ v[1] = "-" THEN Tail(v) ELSE v

DecNegative(v) == Len(v) > 0 /\ v[1] = "-"

DotCount(v) == Cardinality({i \in 1 .. Len(v) : v[i] = "."})

DigitCount(v) == Cardinality({i \in 1 .. Len(v) : IsDigit(v[i])})

\* the position of the radix point in v, or 0
DotAt(v) == IF DotCount(v) = 0 THEN 0 ELSE CHOOSE i \in 1 .. Len(v) : v[i] = "."

\* the forms A, A.B and .B, after an optional hyphen
WellFormed(v) ==
    LET b == DecBody(v)
    IN  /\ \A i \in 1 .. Len(b) : IsDigit(b[i]) \/ b[i] = "."
        /\ DotCount(b) <= 1
        /\ DigitCount(b) > 0
        /\ DotCount(b) = 1 => DotAt(b) < Len(b)

\* the digits of v read as one integer, the radix point left out
RECURSIVE DecDigitsValue(_, _)
DecDigitsValue(v, w) ==
    IF v = <<>> THEN w
    ELSE DecDigitsValue(Tail(v), IF IsDigit(Head(v)) THEN 10 * w + DigitVal(Head(v)) ELSE w)

\* the number of digits behind the radix point
DecFracLen(v) == IF DotCount(v) = 0 THEN 0 ELSE Len(v) - DotAt(v)

\* the signed integer that v denotes once multiplied by 10^DecFracLen(v)
DecScaled(v) == (IF DecNegative(v) THEN -1 ELSE 1) * DecDigitsValue(v, 0)

\* r is a success with the valid value, in lowest terms, that v denotes
ExactDecimal(r, v) ==
    /\ r.err = ErrNil /\ ~r.panic
    /\ IsReducedForm(r.v)
    /\ Num(r.v) * Pow10(DecFracLen(v)) = DecScaled(v) * Den(r.v)

\* v with one more zero in front of its integer part
LeadingZero(v) == IF DecNegative(v) THEN <<"-", "0">> \o Tail(v) ELSE <<"0">> \o v

\* v with one more zero behind its fractional part
TrailingZero(v) == IF DotCount(v) = 1 THEN v \o <<"0">> ELSE v

SameOutcome(r, w) == r.v = w.v /\ (r.err = ErrNil) = (w.err = ErrNil) /\ r.panic = w.panic

\* C21: when ParseDecimalString returns a nil error the value is valid and is
\* exactly the decimal number the text denotes; on a text of the form A, A.B
\* or .B one more leading zero in the integer part, or one more trailing zero
\* in the fractional part, changes neither the value nor the success, and a
\* text whose digits are all zero yields the canonical zero with a nil error.
C21_ParseDecimalString ==
    op = "ParseDecimalString" =>
        /\ ~z.panic
        /\ z.err = ErrNil => ExactDecimal(z, s)
        /\ WellFormed(s) =>
              /\ SameOutcome(ParseDecimalString(LeadingZero(s)), z)
              /\ SameOutcome(ParseDecimalString(TrailingZero(s)), z)
              /\ DecScaled(s) = 0 => z = Ret(Zero, ErrNil)

\* "-2.50" has been parsed to -5/2
C21_Witness ==
    op = "ParseDecimalString" /\ s = <<"-", "2", ".", "5", "0">>
        /\ z.err = ErrNil /\ Num(z.v) = -5 /\ Den(z.v) = 2

\* the malformed texts: empty, without a digit, with a second radix point,
\* with a hyphen behind the first position, or with any other character
Malformed(v) ==
    \/ v = <<>>
    \/ DigitCount(v) = 0
    \/ DotCount(v) > 1
    \/ \E i \in 2 .. Len(v) : v[i] = "-"
    \/ \E i \in 1 .. Len(v) : ~IsDigit(v[i]) /\ v[i] \notin {"-", "."}

\* C22: ParseDecimalString returns ErrFmtInvalid and the zero value for every
\* malformed text: the empty text, a text without a digit, a second radix
\* point, a hyphen at an index other than 0, or any other character.
C22_Malformed ==
    op = "ParseDecimalString" /\ Malformed(s) => z = Ret(Zero, ErrFmtInvalid)

\* "-." has no digit and has been refused
C22_Witness ==
    op = "ParseDecimalString" /\ s = <<"-", ".">> /\ z = Ret(Zero, ErrFmtInvalid)

\* the value v denotes fits a valid N: in lowest terms the numerator is
\* within -MaxInt64 .. MaxInt64 and the denominator within 1 .. MaxInt64
Representable(v) ==
    LET k == DecScaled(v)
        q == Pow10(DecFracLen(v))
        g == MathGCD(AbsZ(k), q)
    IN  AbsZ(k) \div g <= MaxInt64 /\ q \div g <= MaxInt64

\* C29: ParseDecimalString succeeds on every well-formed text whose value is
\* representable as a valid N.
C29_Representable ==
    op = "ParseDecimalString" /\ WellFormed(s) /\ Representable(s) => z.err = ErrNil

\* C23: for every valid x, ParseRationalString of x.RationalString("/"), and
\* of x.String(), returns a nil error and x itself; and ParseRationalString
\* of a text "m/n" with n > 0 that is not in lowest terms returns the value
\* m/n in lowest terms.
C23_RoundTrip ==
    /\ op \in {"RationalString.ParseRationalString", "String.ParseRationalString"}
          => z = Ret(x, ErrNil)
    /\ caller = "Parse" /\ op = "ParseRationalString" /\ MathGCD(AbsZ(num), den) # 1
          => /\ z.err = ErrNil /\ ~z.panic
             /\ IsReducedForm(z.v)
             /\ Num(z.v) * den = num * Den(z.v)

\* ------------------------------------------------------------------------
\* Floats, read as mathematics
\* ------------------------------------------------------------------------

\* the float u = u.s * u.m * 2^u.e and the value v are the same number
FloatEquals(u, v) ==
    IF u.e >= 0 THEN u.s * u.m * 2 ^ u.e * Den(v) = Num(v)
    ELSE u.s * u.m * Den(v) = Num(v) * 2 ^ (-u.e)

\* some float64 is the same number as v
FloatRepresentable(v) ==
    \/ Num(v) = 0
    \/ /\ OnesCount64(Den(v)) = 1
       /\ Len64(AbsZ(Num(v)) \div 2 ^ TrailingZeros64(AbsZ(Num(v)))) <= MantBits

\* C24: for every valid x the exact flag of Float64 tells whether the float
\* returned equals x, it is true exactly when x is representable as a
\* float64, and whenever it is true FromFloat64 of the float returns x.
C24_ExactFlag ==
    /\ op \in {"Float64", "Float64.FromFloat64"} =>
          /\ ok <=> FloatEquals(fres, x)
          /\ ok <=> FloatRepresentable(x)
    /\ op = "Float64.FromFloat64" /\ ok => z = Ret(x, ErrNil)

\* the odd significand and the exponent of a nonzero float
OddMant(u) == u.m \div 2 ^ TrailingZeros64(u.m)

OddExp(u) == u.e + TrailingZeros64(u.m)

\* the number u, in lowest terms OddMant(u) * 2^OddExp(u) over 1 or OddMant(u)
\* over 2^-OddExp(u), has a numerator and a denominator within MaxInt64
FloatFits(u) ==
    IF OddExp(u) >= 0 THEN OddMant(u) * 2 ^ OddExp(u) <= MaxInt64
    ELSE OddMant(u) <= MaxInt64 /\ 2 ^ (-OddExp(u)) <= MaxInt64

\* C25: FromFloat64 of the float s*m*2^e, m odd, returns ErrNumOverflow
\* exactly when e >= 0 and bitlen(m) + e > 63, ErrDenOverflow exactly when
\* e <= -63, and otherwise a nil error with the valid value equal to the
\* float; the float 0 gives the canonical zero.
C25_FromFloat64 ==
    op = "FromFloat64" =>
        /\ ~z.panic
        /\ fv = FloatZero => z = Ret(Zero, ErrNil)
        /\ fv # FloatZero =>
              LET m == OddMant(fv)
                  e == OddExp(fv)
                  numOver == e >= 0 /\ Len64(m) + e > Bits - 1
                  denOver == e <= -(Bits - 1)
              IN  /\ z.err \in {ErrNil, ErrNumOverflow, ErrDenOverflow}
                  /\ z.err = ErrNumOverflow <=> numOver
                  /\ z.err = ErrDenOverflow <=> denOver
                  /\ z.err = ErrNil =>
                        IsReducedForm(z.v) /\ FloatEquals(fv, z.v) /\ FloatFits(fv)
                  /\ z.err # ErrNil => z.v = Zero /\ ~FloatFits(fv)

\* the float -3 * 2^-(Bits - 2) has been converted: the largest denominator
\* that a float can give
C25_Witness ==
    op = "FromFloat64" /\ z.err = ErrNil
        /\ Num(z.v) = -3 /\ Den(z.v) = 2 ^ (Bits - 2)

\* ------------------------------------------------------------------------
\* The narrow and the wide paths
\* ------------------------------------------------------------------------

\* C26: on the narrow path of TryAdd the products mx*ny, my*nx and nx*ny and
\* the sum mx*ny + my*nx are within int64 as mathematical integers, so the
\* int64 expressions do not wrap, and the sum is not MinInt64; on the narrow
\* path of TryMul sgn*mx*my and nx*ny are within int64 as well.
C26_NarrowNoWrap ==
    /\ op = "TryAdd.narrow" =>
          /\ Num(x) * Den(y) \in Int64
          /\ Num(y) * Den(x) \in Int64
          /\ Num(x) * Den(y) + Num(y) * Den(x) \in -MaxInt64 .. MaxInt64
          /\ Den(x) * Den(y) \in 1 .. MaxInt64
          /\ z = Try(Num(x) * Den(y) + Num(y) * Den(x), Den(x) * Den(y))
    /\ op = "TryMul.narrow" =>
          LET w == MulCancel(x, y)
          IN  /\ w.mx * w.my \in 1 .. MaxInt64
              /\ w.nx * w.ny \in 1 .. MaxInt64
              /\ z = tryAlreadyReduced(Sign(x) * Sign(y) * w.mx * w.my, w.nx * w.ny)

\* the narrow sum of two operands at the edge of the guard
C26_Witness ==
    op = "TryAdd.narrow" /\ Num(x) = -(MaxInt32 - 1) /\ Den(x) = MaxInt32 - 2
        /\ Num(y) = -(MaxInt32 - 2) /\ Den(y) = MaxInt32 - 1
        /\ z.err = ErrNil

\* C27: on operands that satisfy the guard of the narrow path of TryAdd the
\* wide path returns a nil error and the value that the narrow path returns,
\* and the same holds for TryMul.
C27_PathsAgree ==
    /\ op = "TryAdd.wide" /\ AddIsNarrow(x, y) =>
          z.err = ErrNil /\ ~z.panic /\ z = TryAddNarrow(x, y)
    /\ op = "TryMul.wide" /\ MulIsNarrow(MulCancel(x, y)) =>
          /\ z.err = ErrNil /\ ~z.panic
          /\ z = TryMulNarrow(Sign(x) * Sign(y), MulCancel(x, y))

\* the wide path has added 1/2 and -2/1, operands of opposite signs that the
\* narrow path accepts, where the second cross product is the larger one
C27_Witness ==
    op = "TryAdd.wide" /\ AddIsNarrow(x, y)
        /\ Num(x) = 1 /\ Den(x) = 2 /\ Num(y) = -2 /\ Den(y) = 1
        /\ Num(z.v) = -3 /\ Den(z.v) = 2

\* ------------------------------------------------------------------------
\* The loops of DecimalString
\* ------------------------------------------------------------------------

\* from the remainder v of a division by w, iteration k of the digit loop and
\* every later one produce a digit in 0..9 and a remainder in 0..w-1, and the
\* wide branch hands bits.Div64 a high word below w
RECURSIVE DigitLoopSafe(_, _, _, _)
DigitLoopSafe(v, w, k, p) ==
    IF ~(k < p + 1) \/ v = 0 THEN TRUE
    ELSE LET st == DecimalStep(v, w)
         IN  /\ ~st.panic
             /\ st.wide => st.rh < w
             /\ st.q \in 0 .. 9
             /\ st.r \in 0 .. w - 1
             /\ DigitLoopSafe(st.r, w, k + 1, p)

\* the digit buffer after rounding, for x and the precision p
RoundedDigits(v, p) ==
    DecimalRound(DecimalDigits(AppendInt(<<48>>, QuoGo(AbsZ(Num(v)), Den(v))),
                               RemGo(AbsZ(Num(v)), Den(v)), Den(v), 0, p).d)

\* C28: DecimalString does not panic for a valid x and any prec: the first
\* remainder is in [0, Den(x)), every digit of the long division is in 0..9
\* and every remainder in [0, Den(x)), the wide branch calls bits.Div64 with
\* a high word below Den(x), the carry of the rounding stops at index 0 of
\* the buffer at the latest and leaves only digits in it, and the shift for
\* the radix point stays within the buffer.
C28_DecimalSafe ==
    op = "DecimalString" =>
        LET p  == IF prec < 0 THEN 0 ELSE prec
            rd == RoundedDigits(x, p)
        IN  /\ ~z.panic
            /\ RemGo(AbsZ(Num(x)), Den(x)) \in 0 .. Den(x) - 1
            /\ DigitLoopSafe(RemGo(AbsZ(Num(x)), Den(x)), Den(x), 0, p)
            /\ ~rd.panic
            /\ \A i \in 1 .. Len(rd.d) : rd.d[i] \in 48 .. 57
            /\ p > 0 => Len(rd.d) - p - 1 \in 1 .. Len(rd.d) - 1
            /\ \A i \in 1 .. Len(out) : out[i] \in {"-", "."} \/ IsDigit(out[i])

\* (MaxInt64 - 1)/MaxInt64 with one fractional digit: the wide branch makes
\* the digits 9 and 6, and the carry of the rounding gives 1.0
C28_Witness ==
    op = "DecimalString" /\ Num(x) = MaxInt64 - 1 /\ Den(x) = MaxInt64 /\ prec = 1
        /\ ~DecimalNarrow(Num(x))
        /\ out = <<"1", ".", "0">>

\* ------------------------------------------------------------------------
\* Termination of ExtGCD
\* ------------------------------------------------------------------------

\* C30: ExtGCD terminates for every m and every nonzero n: each iteration
\* that does not return makes |d| strictly smaller and leaves d nonzero, and
\* a call with n # 0 reaches its return statement.
C30_ExtGCDTerminates ==
    /\ [][op = "ExtGCD.loop" /\ op' = "ExtGCD.loop" =>
            AbsZ(gcd'.d) < AbsZ(gcd.d) /\ gcd'.d # 0]_vars
    /\ (caller = "ExtGCD" /\ den # 0) ~> (op = "ExtGCD.return")

\* ExtGCD(13, 8), two neighbours of the Fibonacci sequence, has returned
\* d = 1 after the longest run of the loop
C30_Witness ==
    op = "ExtGCD.return" /\ num = 13 /\ den = 8
        /\ gcd.d = 1 /\ gcd.c = 2 /\ gcd.a = -3 /\ gcd.b = 5

====
